---------------------------- MODULE Spec2Model ----------------------------
(***************************************************************************)
(* Model of src/config/topic_classifier.py: the closure classify_topic     *)
(* built by create_topic_classifier (an ordered chain of re.search tests   *)
(* on the lowercased comment, then the emoji / short-text heuristic), and  *)
(* the module-level CAMPAIGN_METADATA dict with its accessor               *)
(* get_campaign_metadata.                                                  *)
(*                                                                         *)
(* A character is its Unicode code point; a text is a sequence of code     *)
(* points.  Python objects that can be aliased (dicts, lists) live in a    *)
(* heap indexed by object identity.                                        *)
(***************************************************************************)
EXTENDS Integers, Sequences, FiniteSets, TLC

VARIABLES
    frames,   \* thread -> the local variables and position of its classify_topic call
    dicts,    \* heap of dict objects: identity -> key/value record
    lists     \* heap of list objects: identity -> sequence of strings

vars == <<frames, dicts, lists>>

---------------------------------------------------------------------------
(* Bounds of the exploration *)

\* number of vocabulary fragments concatenated into one comment
MaxFrags == 2
\* number of get_campaign_metadata results a caller holds
MaxHandles == 2
\* how far a caller's append / pop calls take a list from its first length
MaxEdits == 1
\* number of threads that classify concurrently
NumThreads == 2

---------------------------------------------------------------------------
(* Python source literals: ord() of the characters written in the source *)

AsciiUpper == "ABCDEFGHIJKLMNOPQRSTUVWXYZ"
AsciiLower == "abcdefghijklmnopqrstuvwxyz"
AsciiDigit == "0123456789"

Latin1 ==
    ("á" :> 225) @@ ("é" :> 233) @@ ("í" :> 237) @@ ("ó" :> 243) @@
    ("ú" :> 250) @@ ("ñ" :> 241) @@ ("ü" :> 252) @@ ("ß" :> 223) @@
    ("Á" :> 193) @@ ("É" :> 201) @@ ("Í" :> 205) @@ ("Ó" :> 211) @@
    ("Ú" :> 218) @@ ("Ñ" :> 209) @@ ("¿" :> 191) @@
    (" " :> 32) @@ ("!" :> 33) @@ ("," :> 44) @@ ("." :> 46) @@ ("?" :> 63)

IndexIn(ch, alphabet) ==
    CHOOSE i \in 1..Len(alphabet) : SubSeq(alphabet, i, i) = ch

Ord(ch) ==
    IF ch \in DOMAIN Latin1 THEN Latin1[ch]
    ELSE IF \E i \in 1..26 : SubSeq(AsciiLower, i, i) = ch THEN 96 + IndexIn(ch, AsciiLower)
    ELSE IF \E i \in 1..26 : SubSeq(AsciiUpper, i, i) = ch THEN 64 + IndexIn(ch, AsciiUpper)
    ELSE 47 + IndexIn(ch, AsciiDigit)

\* the text of a string literal
Str(w) == [i \in 1..Len(w) |-> Ord(SubSeq(w, i, i))]

RECURSIVE Concat(_)
Concat(ts) == IF ts = <<>> THEN <<>> ELSE Head(ts) \o Concat(Tail(ts))

---------------------------------------------------------------------------
(* str.lower(), str.split(), str.strip(), str()                           *)

\* str.lower() of one character (Basic Latin, Latin-1, Latin Extended-A
\* dotted/dotless i; every other modelled character is caseless)
\* a lower() that folds only A-Z
LowerCharAscii(c) == IF c \in 65..90 THEN <<c + 32>> ELSE <<c>>

LowerChar(c) ==
    IF c \in (65..90) \cup (192..214) \cup (216..222) THEN <<c + 32>>
    ELSE IF c = 304 THEN <<105, 775>>
    ELSE IF c = 376 THEN <<255>>
    ELSE IF c = 924 THEN <<956>>
    ELSE <<c>>

Lower(s) == Concat([i \in 1..Len(s) |-> LowerChar(s[i])])

\* str.isspace()
IsSpace(c) ==
    c \in (9..13) \cup (28..32) \cup {133, 160, 5760} \cup (8192..8202)
          \cup {8232, 8233, 8239, 8287, 12288}

\* str.split() with no argument: the maximal runs of non-whitespace
Split(s) ==
    LET starts == {i \in 1..Len(s) :
                      /\ ~IsSpace(s[i])
                      /\ (i = 1 \/ IsSpace(s[i - 1]))}
        EndOf(i) == CHOOSE j \in i..Len(s) :
                      /\ \A k \in i..j : ~IsSpace(s[k])
                      /\ (j = Len(s) \/ IsSpace(s[j + 1]))
    IN  [i \in starts |-> SubSeq(s, i, EndOf(i))]

\* str.strip() with no argument
Strip(s) ==
    LET keep == {i \in 1..Len(s) : ~IsSpace(s[i])}
    IN  IF keep = {} THEN <<>>
        ELSE SubSeq(s, CHOOSE i \in keep : \A j \in keep : i <= j,
                       CHOOSE i \in keep : \A j \in keep : j <= i)

\* the values a caller may pass: a str, None, or an int
IsStr(v) == v.type = "str"

\* str(comment)
PyStr(v) ==
    CASE v.type = "str"      -> v.text
      [] v.type = "NoneType" -> Str("None")
      [] v.type = "int"      -> Str(v.repr)

---------------------------------------------------------------------------
(* The subset of Python's re the source uses                               *)

\* a literal with [..] character classes, as a sequence of character sets
Pat(w) ==
    LET ch(i)     == SubSeq(w, i, i)
        \* position i lies inside a class, or closes one
        InClass(i) == \E a \in 1..(i - 1) :
                         ch(a) = "[" /\ \A m \in a..(i - 1) : ch(m) # "]"
        starts    == {i \in 1..Len(w) : ~InClass(i)}
        Nth(k)    == CHOOSE i \in starts : Cardinality({j \in starts : j < i}) = k - 1
        Close(i)  == CHOOSE j \in (i + 1)..Len(w) :
                         ch(j) = "]" /\ \A m \in (i + 1)..(j - 1) : ch(m) # "]"
        Elem(i)   == IF ch(i) = "["
                     THEN {Ord(ch(m)) : m \in (i + 1)..(Close(i) - 1)}
                     ELSE {Ord(ch(i))}
    IN  [k \in 1..Cardinality(starts) |-> Elem(Nth(k))]

\* one alternative of a pattern:  a  |  \ba\b  |  a.*b  |  a(?!.*b)
Lit(a)       == [kind |-> "lit",  pre |-> Pat(a), post |-> <<>>]
Word(a)      == [kind |-> "word", pre |-> Pat(a), post |-> <<>>]
Gap(a, b)    == [kind |-> "gap",  pre |-> Pat(a), post |-> Pat(b)]
NotBefore(a, b) == [kind |-> "neg", pre |-> Pat(a), post |-> Pat(b)]

MatchAt(s, i, p) ==
    /\ i + Len(p) - 1 <= Len(s)
    /\ \A k \in 1..Len(p) : s[i + k - 1] \in p[k]

\* \w
IsWordChar(c) ==
    c \in (48..57) \cup (65..90) \cup {95} \cup (97..122) \cup {170, 178, 179, 181}
          \cup {185, 186} \cup (188..190) \cup (192..214) \cup (216..246) \cup (248..599)

\* \b before position i
Boundary(s, i) ==
    LET w(k) == k \in 1..Len(s) /\ IsWordChar(s[k])
    IN  w(i - 1) # w(i)

\* .* then p, starting at position from: '.' is any character but a newline
Follows(s, from, p) ==
    \E j \in from..(Len(s) + 1) :
        /\ MatchAt(s, j, p)
        /\ \A k \in from..(j - 1) : s[k] # 10

AltMatches(s, alt) ==
    \E i \in 1..(Len(s) + 1) :
        /\ MatchAt(s, i, alt.pre)
        /\ CASE alt.kind = "lit"  -> TRUE
             [] alt.kind = "word" -> Boundary(s, i) /\ Boundary(s, i + Len(alt.pre))
             [] alt.kind = "gap"  -> Follows(s, i + Len(alt.pre), alt.post)
             [] alt.kind = "neg"  -> ~Follows(s, i + Len(alt.pre), alt.post)

\* re.search(pattern, s) is not None
Search(pattern, s) == \E k \in DOMAIN pattern : AltMatches(s, pattern[k])

---------------------------------------------------------------------------
(* classify_topic: the eleven primary rules, in source order               *)

Pattern1 ==
    << Lit("receta"), Lit("f[oó]rmula"), Lit("c[oó]mo se hace"),
       Lit("c[oó]mo se prepar"), Lit("c[oó]mo lo hago"),
       Gap("env[ií]a", "receta"), Gap("quiero", "receta"),
       Gap("no veo", "receta"), Gap("d[oó]nde", "receta"),
       Lit("instrucciones"), Lit("preparaci[oó]n"), Lit("parte 2"),
       Lit("parte 3"), Lit("continuaci[oó]n") >>

Pattern2 ==
    << Lit("algo est[aá] mal"), Lit("no funciona"), Lit("no sale"),
       Lit("medidas"), Lit("est[aá] equivocad[oa]"), Gap("no es", "taza"),
       Lit("definitivamente no"), Lit("masa espesa"), Lit("no coincide"),
       Lit("error en"), Lit("problema con") >>

Pattern3 ==
    << Word("caro"), Word("costoso"), Lit("bajen el precio"), Lit("muy caro"),
       Lit("precio"), Lit("cuesta"), Lit("vale"), Lit("econ[oó]mico") >>

\* rule 4 without its 'excelente' alternative
Pattern4NoExcelente ==
    << Gap("cur[oó]", "gastritis"), Lit("prote[ií]na"), Lit("saludable"),
       Lit("bueno para"), Lit("beneficios"), Lit("me cur[oó]"),
       Lit("es muy bueno"), Lit("super bueno"), Lit("nutritivo"),
       Lit("vitamina") >>

Pattern4 ==
    << Gap("cur[oó]", "gastritis"), Lit("prote[ií]na"), Lit("saludable"),
       Lit("bueno para"), Lit("beneficios"), Lit("me cur[oó]"),
       Lit("es muy bueno"), Lit("excelente"), Lit("super bueno"),
       Lit("nutritivo"), Lit("vitamina") >>

Pattern5 ==
    << Lit("me gusta"), Lit("me encanta"), Lit("delicioso"), Lit("rico"),
       Lit("bueno"), NotBefore("excelente", "bendiciones"),
       NotBefore("s[uú]per", "bueno"), Lit("se ve delicioso"),
       Lit("belleza de producto"), Lit("feliz") >>

Pattern6 ==
    << Lit("con frutas"), Lit("con fresas"), Lit("con moras"), Lit("ensalada"),
       Lit("acompañar"), Lit("combinar"), Lit("mezclar"), Lit("agridulce"),
       Lit("toquecito"), Lit("agregar") >>

Pattern7 ==
    << Lit("aspartame"), Lit("sacarosa"), Lit("az[uú]car"), Lit("prote[ií]na"),
       Lit("ingredientes"), Lit("contiene"), Lit("tiene"), Lit("posee"),
       Lit("gramos"), Lit("componente") >>

Pattern8 ==
    << Gap("mejor", "k[eé]fir"), Gap("como", "huevos"), Lit("lo mismo que"),
       Lit("comparado"), Lit("versus"), Lit("vs"), Lit("mejor que") >>

Pattern9 ==
    << Lit("borrador"), Lit("video"), Lit("calvo"), Lit("invitado"),
       Lit("fastidioso"), Lit("bobazo"), Lit("cringe"), Lit("llor[oó]n"),
       Lit("soporta"), Lit("papas bravas"), Lit("equivocad[oa]"),
       Lit("publicidad") >>

Pattern10 ==
    << Lit("d[oó]nde est[aá]"), Lit("ubicad[oa]"), Lit("d[oó]nde comprar"),
       Lit("consigo"), Lit("encuentro"), Lit("tienda"), Lit("venden") >>

Pattern11 ==
    << Lit("am[eé]n"), Lit("bendiciones"), Lit("dios te bendiga"),
       Lit("padre amado"), Lit("gracias a dios"), Lit("se[ñn]or"),
       Lit("oraci[oó]n"), Gap("recibo", "bendici[oó]n"), Lit("todo poderoso") >>

\* the chain of if re.search(...): return ... statements, top to bottom
PrimaryRules ==
    << [pattern |-> Pattern1,  label |-> "Solicitud de Recetas"],
       [pattern |-> Pattern2,  label |-> "Problemas con Recetas"],
       [pattern |-> Pattern3,  label |-> "Precio"],
       [pattern |-> Pattern4,  label |-> "Beneficios de Salud"],
       [pattern |-> Pattern5,  label |-> "Opinión Positiva del Producto"],
       [pattern |-> Pattern6,  label |-> "Formas de Consumo"],
       [pattern |-> Pattern7,  label |-> "Ingredientes y Composición"],
       [pattern |-> Pattern8,  label |-> "Comparación con Otros Productos"],
       [pattern |-> Pattern9,  label |-> "Comentarios sobre Contenido"],
       [pattern |-> Pattern10, label |-> "Disponibilidad y Ubicación"],
       [pattern |-> Pattern11, label |-> "Fuera de Tema / Religioso"] >>

RuleMatches(k, s) == Search(PrimaryRules[k].pattern, s)

---------------------------------------------------------------------------
(* classify_topic: the emoji / short-text heuristic                        *)

\* [😀-🙏🌀-🗿] and the single-character alternatives ✨ 💛 💗 💕 🍓 🥗 🥡 🙀 😳 🥰 🫢
EmojiChars ==
    (128512..128591) \cup (127744..128511)
        \cup {10024, 128155, 128151, 128149, 127827, 129367, 129377,
              128576, 128563, 129392, 129762}

\* the two-character alternatives: ❤ or ♥ followed by VARIATION SELECTOR-16
EmojiPairs == { <<10084, 65039>>, <<9829, 65039>> }

\* len(re.findall(...)): non-overlapping matches, scanning left to right
RECURSIVE EmojiFrom(_, _)
EmojiFrom(s, i) ==
    IF i > Len(s) THEN 0
    ELSE IF s[i] \in EmojiChars THEN 1 + EmojiFrom(s, i + 1)
    ELSE IF i < Len(s) /\ <<s[i], s[i + 1]>> \in EmojiPairs THEN 1 + EmojiFrom(s, i + 2)
    ELSE EmojiFrom(s, i + 1)

emoji_count(text) == EmojiFrom(text, 1)

\* len([w for w in comment_lower.split() if len(w) > 2])
word_count(lowered) ==
    LET ws == Split(lowered)
    IN  Cardinality({i \in DOMAIN ws : Len(ws[i]) > 2})

\* the threshold off by one, either way
DegenerateAtMostTwo(ec, wc) == ec > wc \/ wc <= 2
DegenerateNoWords(ec, wc)   == ec > wc \/ wc < 1

\* if emoji_count > word_count or word_count < 2
Degenerate(ec, wc) == ec > wc \/ wc < 2

StopTokens ==
    { Str("si"), Str("no"), Str("jaja"), Str("gracias"), Str("mmm"), Str("w"),
      Str("j"), Str("op"), Str("l"), Str("algo") }

\* re.search(r'^(si|no|...)$', s): '$' also matches before a final newline
StopMatch(s) == \E tok \in StopTokens : s = tok \/ s = tok \o <<10>>

SoloEmojis == "Fuera de Tema / Solo Emojis"

\* a function that falls off its end returns None
NoLabel == "None"

Otros == "Otros"

\* the statements after the eleven rules, run to the return (or the raise)
AfterRules(v, lowered) ==
    IF ~IsStr(v) THEN "TypeError"
    ELSE IF Degenerate(emoji_count(v.text), word_count(lowered)) THEN SoloEmojis
    ELSE IF StopMatch(Strip(lowered)) THEN SoloEmojis
    ELSE Otros

RECURSIVE RulesFrom(_, _, _)
RulesFrom(k, v, lowered) ==
    IF k > Len(PrimaryRules) THEN AfterRules(v, lowered)
    ELSE IF RuleMatches(k, lowered) THEN PrimaryRules[k].label
    ELSE RulesFrom(k + 1, v, lowered)

\* one whole call run alone: the label returned, or "TypeError" when it raises
classify_topic(v) == RulesFrom(1, v, Lower(PyStr(v)))

---------------------------------------------------------------------------
(* The arguments the exploration passes to classify_topic                  *)

\* pieces of comments that are concatenated: rule words of several
\* priorities, the documented scenarios, whitespace, emoji inside and outside the
\* glyph set, and a letter whose uppercase does not lowercase back
Fragments ==
    { Str("receta"), Str("no funciona"), Str("caro"), Str("excelente"),
      Str("Me encanta, es delicioso y muy nutritivo"), Str("súper"),
      Str("contiene"), Str("VIDEO"), Str(" bendiciones"), Str("jaja"),
      Str("hola mundo"), <<10>>,
      <<128591, 128591, 128591>>,                  \* 🙏🙏🙏
      <<32, 128591, 32, 128591, 32, 128591>>,      \* " 🙏 🙏 🙏"
      <<10084, 65039>>,                            \* ❤ + VS16
      Str("ßa ") }

\* comments classified on their own: the remaining rules, and dotless i
Singles ==
    { Str("con frutas"), Str("mejor que"), Str("tienda"),
      Str("v") \o <<305>> \o Str("deo") }          \* "vıdeo"

TextsOf(n) ==
    Singles \cup UNION { {Concat(fs) : fs \in [1..k -> Fragments]} : k \in 0..n }

StrValue(text) == [type |-> "str", text |-> text]
NoneValue      == [type |-> "NoneType"]
IntValue(r)    == [type |-> "int", repr |-> r]

Inputs ==
    {StrValue(x) : x \in TextsOf(MaxFrags)} \cup {NoneValue, IntValue("7")}

\* the comments the concurrent exploration classifies
ConcInputs ==
    { StrValue(Str("receta")), StrValue(Str("hola mundo")), NoneValue }

---------------------------------------------------------------------------
(* State of one classify_topic call                                        *)

IdleFrame ==
    [pc |-> "idle", comment |-> [type |-> "unbound"], comment_lower |-> <<>>,
     rule |-> 0, emoji_count |-> 0, word_count |-> 0, result |-> ""]

\* comment_lower kept in one place for every call
SharedLoweredComment(t) == frames[1].comment_lower

\* the local comment_lower of the call running in thread t
LoweredComment(t) == frames[t].comment_lower

\* classify_topic(v) is entered with some v of args: comment is bound and
\* lowercased
Call(t, args) ==
    /\ frames[t].pc = "idle"
    /\ \E v \in args :
          frames' = [frames EXCEPT ![t] =
                       [IdleFrame EXCEPT !.pc = "rules", !.comment = v,
                                         !.comment_lower = Lower(PyStr(v)),
                                         !.rule = 1]]
    /\ UNCHANGED <<dicts, lists>>

\* a chain that keeps testing after a match, so the last matching rule wins
RuleOutcomeLastWins(f, lowered) ==
    IF /\ RuleMatches(f.rule, lowered)
       /\ \A j \in (f.rule + 1)..Len(PrimaryRules) : ~RuleMatches(j, lowered)
    THEN [f EXCEPT !.pc = "done", !.result = PrimaryRules[f.rule].label]
    ELSE IF f.rule < Len(PrimaryRules)
    THEN [f EXCEPT !.rule = f.rule + 1]
    ELSE [f EXCEPT !.pc = "count"]

\* one if re.search(...): return <label>: the frame after it
RuleOutcome(f, lowered) ==
    IF RuleMatches(f.rule, lowered)
    THEN [f EXCEPT !.pc = "done", !.result = PrimaryRules[f.rule].label]
    ELSE IF f.rule < Len(PrimaryRules)
    THEN [f EXCEPT !.rule = f.rule + 1]
    ELSE [f EXCEPT !.pc = "count"]

\* the next rule of the chain is tested
TestRule(t) ==
    /\ frames[t].pc = "rules"
    /\ frames' = [frames EXCEPT ![t] = RuleOutcome(frames[t], LoweredComment(t))]
    /\ UNCHANGED <<dicts, lists>>

\* emoji_count = len(re.findall(..., comment)); word_count = ...
\* re.findall raises TypeError when comment is not a str
CountGlyphs(t) ==
    LET f == frames[t] IN
    /\ f.pc = "count"
    /\ frames' = [frames EXCEPT ![t] =
                    IF ~IsStr(f.comment)
                    THEN [f EXCEPT !.pc = "raised", !.result = "TypeError"]
                    ELSE [f EXCEPT !.pc = "heuristic",
                                   !.emoji_count = emoji_count(f.comment.text),
                                   !.word_count = word_count(LoweredComment(t))]]
    /\ UNCHANGED <<dicts, lists>>

\* if emoji_count > word_count or word_count < 2: return ...
Heuristic(t) ==
    LET f == frames[t] IN
    /\ f.pc = "heuristic"
    /\ frames' = [frames EXCEPT ![t] =
                    IF Degenerate(f.emoji_count, f.word_count)
                    THEN [f EXCEPT !.pc = "done", !.result = SoloEmojis]
                    ELSE [f EXCEPT !.pc = "stop"]]
    /\ UNCHANGED <<dicts, lists>>

\* if re.search(r'^(si|no|...)$', comment_lower.strip()): return ...
\* return 'Otros'
StopToken(t) ==
    LET f == frames[t] IN
    /\ f.pc = "stop"
    /\ frames' = [frames EXCEPT ![t] =
                    [f EXCEPT !.pc = "done",
                              !.result = IF StopMatch(Strip(LoweredComment(t)))
                                         THEN SoloEmojis ELSE Otros]]
    /\ UNCHANGED <<dicts, lists>>

\* the caller has the label (or the exception) and the frame is gone
Return(t) ==
    /\ frames[t].pc \in {"done", "raised"}
    /\ frames' = [frames EXCEPT ![t] = IdleFrame]
    /\ UNCHANGED <<dicts, lists>>

Step(t) ==
    \/ TestRule(t)
    \/ CountGlyphs(t)
    \/ Heuristic(t)
    \/ StopToken(t)
    \/ Return(t)

---------------------------------------------------------------------------
(* CAMPAIGN_METADATA and get_campaign_metadata                             *)

Categories0 ==
    << "Preguntas sobre el Producto", "Comparación con Kéfir Casero/Artesanal",
       "Ingredientes y Salud", "Competencia y Disponibilidad",
       "Opinión General del Producto", "Fuera de Tema / No Relevante", "Otros" >>

\* the dict literal; 'categories' holds a reference to list object 1
Metadata0 ==
    [campaign_name |-> "Alpina - Kéfir", product |-> "Kéfir Alpina",
     categories |-> 1, version |-> "1.0", last_updated |-> "2025-11-20"]

\* the module-level name CAMPAIGN_METADATA is bound to dict object 1
CAMPAIGN_METADATA == 1

\* dict.copy(): a new dict with the same values (references included)
DictCopy(d) == dicts[d]

\* a dict with each value replaced by the contents of the object it refers to
Deref(d) == [dicts[d] EXCEPT !.categories = lists[dicts[d].categories]]

\* return CAMPAIGN_METADATA.copy()
get_campaign_metadata ==
    /\ Len(dicts) < 1 + MaxHandles
    /\ dicts' = Append(dicts, DictCopy(CAMPAIGN_METADATA))
    /\ UNCHANGED <<frames, lists>>

\* the dicts callers hold
Returned == 2..Len(dicts)

\* caller: m['version'] = v
SetVersion(d, v) ==
    /\ d \in Returned
    /\ dicts[d].version # v
    /\ dicts' = [dicts EXCEPT ![d].version = v]
    /\ UNCHANGED <<frames, lists>>

\* caller: m['categories'] = [] (a fresh list object)
SetCategories(d) ==
    /\ d \in Returned
    /\ Len(lists) < 1 + MaxHandles
    /\ lists' = Append(lists, <<>>)
    /\ dicts' = [dicts EXCEPT ![d].categories = Len(lists) + 1]
    /\ UNCHANGED frames

\* the length list object l was created with
FirstLen(l) == IF l = 1 THEN Len(Categories0) ELSE 0

\* caller: m['categories'].append(x)
AppendCategory(d, x) ==
    LET l == dicts[d].categories IN
    /\ d \in Returned
    /\ Len(lists[l]) < FirstLen(l) + MaxEdits
    /\ lists' = [lists EXCEPT ![l] = Append(@, x)]
    /\ UNCHANGED <<frames, dicts>>

\* caller: m['categories'].pop()
PopCategory(d) ==
    LET l == dicts[d].categories IN
    /\ d \in Returned
    /\ lists[l] # <<>>
    /\ Len(lists[l]) > FirstLen(l) - MaxEdits
    /\ lists' = [lists EXCEPT ![l] = SubSeq(@, 1, Len(@) - 1)]
    /\ UNCHANGED <<frames, dicts>>

---------------------------------------------------------------------------
(* Specifications                                                          *)

InitHeap ==
    /\ dicts = <<Metadata0>>
    /\ lists = <<Categories0>>

\* one caller classifying one comment after another
Init ==
    /\ frames = [t \in {1} |-> IdleFrame]
    /\ InitHeap

Next ==
    \/ Call(1, Inputs)
    \/ Step(1)

Spec == Init /\ [][Next]_vars

\* a caller of the metadata accessor
MetaNext ==
    \/ get_campaign_metadata
    \/ \E d \in Returned : SetVersion(d, "2.0")
    \/ \E d \in Returned : SetCategories(d)
    \/ \E d \in Returned : AppendCategory(d, "Precio")
    \/ \E d \in Returned : PopCategory(d)

SpecMeta == Init /\ [][MetaNext]_vars

\* several threads classifying while the accessor is called
InitConc ==
    /\ frames = [t \in 1..NumThreads |-> IdleFrame]
    /\ InitHeap

ConcNext ==
    \/ \E t \in 1..NumThreads : Call(t, ConcInputs)
    \/ \E t \in 1..NumThreads : Step(t)
    \/ get_campaign_metadata

SpecConc == InitConc /\ [][ConcNext]_vars

---------------------------------------------------------------------------
(* str.upper(), for the case-insensitivity property                        *)

UpperChar(c) ==
    IF c \in (97..122) \cup (224..246) \cup (248..254) THEN <<c - 32>>
    ELSE IF c = 223 THEN <<83, 83>>
    ELSE IF c = 181 THEN <<924>>
    ELSE IF c = 255 THEN <<376>>
    ELSE IF c = 305 THEN <<73>>
    ELSE <<c>>

Upper(s) == Concat([i \in 1..Len(s) |-> UpperChar(s[i])])

---------------------------------------------------------------------------
(* Properties                                                              *)

Calls == DOMAIN frames

\* a call on a str argument that has returned
Returned1(t) == frames[t].pc = "done" /\ IsStr(frames[t].comment)

NoRuleMatches(lowered) == \A k \in 1..11 : ~RuleMatches(k, lowered)

Contains(s, w) == \E i \in 1..(Len(s) + 1) : MatchAt(s, i, Pat(w))

Labels13 ==
    { "Solicitud de Recetas", "Problemas con Recetas", "Precio",
      "Beneficios de Salud", "Opinión Positiva del Producto",
      "Formas de Consumo", "Ingredientes y Composición",
      "Comparación con Otros Productos", "Comentarios sobre Contenido",
      "Disponibilidad y Ubicación", "Fuera de Tema / Religioso",
      "Fuera de Tema / Solo Emojis", "Otros" }

\* C1: a call on any text never raises, and when it has returned its result
\* is one non-empty label among the 13 fixed labels; when no primary rule
\* matches and none of the degenerate tests applies the label is 'Otros'.
C1_Totality ==
    \A t \in Calls :
        LET f   == frames[t]
            low == Lower(f.comment.text)
            wc  == word_count(low)
        IN  IsStr(f.comment) =>
              /\ f.pc \in {"rules", "count", "heuristic", "stop", "done"}
              /\ f.pc = "done" =>
                   /\ f.result # ""
                   /\ f.result \in Labels13
                   /\ ( /\ f.result # "Otros"
                        /\ ~(emoji_count(f.comment.text) > wc)
                        /\ ~(wc < 2)
                        /\ Strip(low) \notin StopTokens ) => ~NoRuleMatches(low)

C1_Witness ==
    \E t \in Calls :
        /\ Returned1(t)
        /\ frames[t].comment.text = Str("hola mundo")
        /\ frames[t].result = "Otros"

\* C2: no call ever raises, whatever the type of the argument.
C2_NeverRaises ==
    \A t \in Calls : frames[t].pc # "raised"

\* C3: every label a call returns is an element of the 'categories' list of
\* the campaign metadata.
C3_LabelInCategories ==
    \A t \in Calls :
        frames[t].pc = "done" =>
            \E i \in DOMAIN lists[dicts[CAMPAIGN_METADATA].categories] :
                lists[dicts[CAMPAIGN_METADATA].categories][i] = frames[t].result

\* C4: the label returned is that of the lowest-numbered of the 11 rules whose
\* pattern matches the lowercased comment (a returned rule label is that of a
\* rule that matches while no earlier rule does, and any other label is
\* returned only when no rule matches); 'Me encanta, es delicioso y muy
\* nutritivo' matches rules 4 and 5 and yields 'Beneficios de Salud'.
C4_FirstMatchWins ==
    \A t \in Calls :
        LET f    == frames[t]
            low  == Lower(f.comment.text)
            Hit(k) == Search(PrimaryRules[k].pattern, low)
        IN  Returned1(t) =>
              /\ \A k \in 1..11 :
                    f.result = PrimaryRules[k].label
                        => (Hit(k) /\ \A j \in 1..(k - 1) : ~Hit(j))
              /\ (\A k \in 1..11 : f.result # PrimaryRules[k].label)
                        => \A k \in 1..11 : ~Hit(k)
              /\ f.comment.text = Str("Me encanta, es delicioso y muy nutritivo")
                    => f.result = "Beneficios de Salud"

C4_Witness ==
    \E t \in Calls :
        /\ Returned1(t)
        /\ frames[t].comment.text = Str("Me encanta, es delicioso y muy nutritivo")
        /\ RuleMatches(4, frames[t].comment_lower)
        /\ RuleMatches(5, frames[t].comment_lower)
        /\ frames[t].result = "Beneficios de Salud"

\* C5: whatever callers do with the dicts get_campaign_metadata returned, the
\* module-level CAMPAIGN_METADATA still holds the original descriptor.
C5_DefensiveCopy ==
    Deref(CAMPAIGN_METADATA) = [Metadata0 EXCEPT !.categories = Categories0]

\* C6: a returned label is 'Fuera de Tema / Solo Emojis' exactly when no
\* primary rule matches the lowercased text and (glyphs of the original text
\* outnumber the lowercased tokens longer than 2, or there are fewer than 2
\* such tokens, or the trimmed lowercased text is a stop token); otherwise,
\* with no rule matching, it is 'Otros'.  A comment with 'receta' and emoji
\* is a recipe request; '' and three praying hands are degenerate.
C6_DegenerateAfterRules ==
    \A t \in Calls :
        LET f    == frames[t]
            text == f.comment.text
            low  == Lower(text)
            wc   == word_count(low)
            deg  == emoji_count(text) > wc \/ wc < 2 \/ Strip(low) \in StopTokens
        IN  Returned1(t) =>
              /\ f.result = "Fuera de Tema / Solo Emojis" <=> (deg /\ NoRuleMatches(low))
              /\ (~deg /\ f.result # "Otros") => ~NoRuleMatches(low)
              /\ (Contains(low, "receta") /\ emoji_count(text) > wc)
                    => f.result = "Solicitud de Recetas"
              /\ text \in {<<>>, <<128591, 128591, 128591>>}
                    => f.result = "Fuera de Tema / Solo Emojis"

C6_Witness ==
    \E t \in Calls :
        /\ Returned1(t)
        /\ frames[t].word_count >= 2
        /\ frames[t].emoji_count > frames[t].word_count
        /\ frames[t].result = "Fuera de Tema / Solo Emojis"

\* the characters of Spanish text: Basic Latin, the accented letters and
\* inverted marks of Spanish, and the caseless symbol and emoji blocks
SpanishChars ==
    (0..127) \cup {161, 191, 193, 201, 205, 209, 211, 218, 220,
                   225, 233, 237, 241, 243, 250, 252}
             \cup (9728..10175) \cup {65039} \cup (127744..129791)

\* C7 as stated: every comment gets the label of its uppercased form.
C7_CaseInsensitive ==
    \A t \in Calls :
        Returned1(t) =>
            frames[t].result = classify_topic(StrValue(Upper(frames[t].comment.text)))

\* C7 amended: a comment written with Basic Latin characters, Spanish accented
\* letters, symbols and emoji gets the label of its uppercased form.
C7_CaseInsensitiveSpanish ==
    \A t \in Calls :
        ( /\ Returned1(t)
          /\ \A i \in DOMAIN frames[t].comment.text :
                frames[t].comment.text[i] \in SpanishChars )
        => frames[t].result = classify_topic(StrValue(Upper(frames[t].comment.text)))

C7_Witness ==
    \E t \in Calls :
        /\ Returned1(t)
        /\ frames[t].comment.text = Str("súper")
        /\ Upper(frames[t].comment.text) = Str("SÚPER")
        /\ frames[t].result = "Opinión Positiva del Producto"

\* C8: under every interleaving, a finished call holds what the same argument
\* yields when classified alone, and two finished calls with the same
\* argument hold the same outcome.
C8_Deterministic ==
    /\ \A t \in Calls :
          frames[t].pc \in {"done", "raised"}
              => frames[t].result = classify_topic(frames[t].comment)
    /\ \A t, u \in Calls :
          ( /\ frames[t].pc \in {"done", "raised"}
            /\ frames[u].pc \in {"done", "raised"}
            /\ frames[t].comment = frames[u].comment )
          => frames[t].result = frames[u].result

C8_Witness ==
    \E t, u \in Calls :
        /\ t # u
        /\ frames[t].pc = "done" /\ frames[u].pc = "done"
        /\ frames[t].comment # frames[u].comment
        /\ frames[t].result # frames[u].result
        /\ Len(dicts) > 1

\* C9: when execution reaches the stop-token test the comment has at least 2
\* tokens longer than 2 characters and its trimmed lowercased text is no stop
\* token; a stop-token-only comment is labelled degenerate without reaching
\* the test; and every returned label is the one the chain gives with the
\* stop-token test removed.
C9_StopTokenNeverDecides ==
    \A t \in Calls :
        LET f   == frames[t]
            low == Lower(f.comment.text)
            wc  == word_count(low)
        IN  IsStr(f.comment) =>
              /\ f.pc = "stop" => (wc >= 2 /\ Strip(low) \notin StopTokens)
              /\ (f.pc = "done" /\ Strip(low) \in StopTokens) =>
                    f.result = "Fuera de Tema / Solo Emojis"
              /\ ( /\ f.pc = "done"
                   /\ f.result # IF emoji_count(f.comment.text) > wc \/ wc < 2
                                 THEN "Fuera de Tema / Solo Emojis" ELSE "Otros" )
                 => ~NoRuleMatches(low)

C9_Witness ==
    \E t \in Calls :
        /\ Returned1(t)
        /\ NoRuleMatches(frames[t].comment_lower)
        /\ frames[t].word_count >= 2
        /\ frames[t].emoji_count <= frames[t].word_count
        /\ frames[t].result = "Otros"

\* rule 5 with 'excelente' in place of 'excelente(?!.*bendiciones)'
Pattern5NoLookahead ==
    << Lit("me gusta"), Lit("me encanta"), Lit("delicioso"), Lit("rico"),
       Lit("bueno"), Lit("excelente"), NotBefore("s[uú]per", "bueno"),
       Lit("se ve delicioso"), Lit("belleza de producto"), Lit("feliz") >>

\* C10: a comment whose lowercased text contains 'excelente' and matches none
\* of rules 1-3 is labelled 'Beneficios de Salud', and whenever rule 5 is
\* tested it matches exactly when it would with the lookahead removed.
C10_ExcelenteShadowed ==
    \A t \in Calls :
        LET f   == frames[t]
            low == Lower(f.comment.text)
        IN  IsStr(f.comment) =>
              /\ ( /\ f.pc = "done"
                   /\ Contains(low, "excelente")
                   /\ \A k \in 1..3 : ~RuleMatches(k, low) )
                 => f.result = "Beneficios de Salud"
              /\ (f.pc = "rules" /\ f.rule = 5)
                 => (Search(Pattern5, low) <=> Search(Pattern5NoLookahead, low))

C10_Witness ==
    \E t \in Calls :
        /\ Returned1(t)
        /\ frames[t].comment.text = Str("excelente bendiciones")
        /\ frames[t].result = "Beneficios de Salud"

=============================================================================
